---- MODULE Spec2Model ----
(***************************************************************************)
(* Model of the Ant3D maintenance scripts:                                 *)
(*   convert_map.py        parse_scad_map, convert_to_json, main           *)
(*   add_files_to_xcode.py add_files_to_xcode                              *)
(* Text is a sequence of one-character strings, so that searching,         *)
(* splitting, stripping and integer parsing are computed on characters.    *)
(***************************************************************************)
EXTENDS Integers, Sequences, FiniteSets, TLC

VARIABLES
    \* ---- convert_map.py ----
    pc,          \* position of main()
    err,         \* the uncaught exception that ended the run, or "none"
    content,     \* text of AntAttack3D/map.scad
    lines,       \* map_content.split("\n") inside parse_scad_map
    lineIdx,     \* index of the line the parse loop is at
    rows,        \* parse_scad_map's local list
    heightmap,   \* main's heightmap: [set, grid], set once parse_scad_map returned
    stats,       \* convert_to_json's locals total_cells, ground_only, ...
    outFile,     \* AntAttack3D/ant_attack_original.json on disk
    outFile0,    \* the same file before the run
    opened,      \* whether the run ever opened the output file
    samples,     \* the blocks lists of main's sample decoding
    \* ---- bitmask decoding applied to one value ----
    val,         \* the Cell Code
    blocks,      \* [done, levels]: the decoded levels once the loop ran
    \* ---- add_files_to_xcode.py ----
    xpc,         \* position of add_files_to_xcode
    xret,        \* its return value: "none", "True", "False"
    xcontent,    \* the in-memory content
    projFile,    \* project.pbxproj on disk: [exists, data]
    projFile0,   \* the same file before the call
    files_to_add,
    group_name

convVars == <<pc, err, content, lines, lineIdx, rows, heightmap, stats,
              outFile, outFile0, opened, samples>>
decVars  == <<val, blocks>>
xcVars   == <<xpc, xret, xcontent, projFile, projFile0, files_to_add, group_name>>
vars     == <<convVars, decVars, xcVars>>

----------------------------------------------------------------------------
(* Bounds of the model *)

\* number of lines between the two markers of the input text
MaxLines == 2
\* largest Cell Code given to the decoder
MaxVal == 1100
\* number of files handed to add_files_to_xcode
MaxFiles == 1
\* pieces of text the output file receives per flush of its write buffer
WriteBuffer == 16

----------------------------------------------------------------------------
(* Python string operations, on sequences of characters *)

SetMin(S) == CHOOSE i \in S : \A j \in S : i <= j
SetMax(S) == CHOOSE i \in S : \A j \in S : i >= j

StartsWithAt(s, pat, i) ==
    /\ i >= 1
    /\ i + Len(pat) - 1 <= Len(s)
    /\ \A k \in 1..Len(pat) : s[i + k - 1] = pat[k]

\* str.find / the leftmost position a regex literal can match at: the first
\* index >= from at which pat occurs, 0 when there is none
Find(s, pat, from) ==
    LET cands == {i \in from..(Len(s) - Len(pat) + 1) : StartsWithAt(s, pat, i)}
    IN  IF cands = {} THEN 0 ELSE SetMin(cands)

\* str.split(sep) for a one-character separator
RECURSIVE Split(_, _)
Split(s, sep) ==
    LET i == Find(s, <<sep>>, 1)
    IN  IF i = 0 THEN <<s>>
        ELSE <<SubSeq(s, 1, i - 1)>> \o Split(SubSeq(s, i + 1, Len(s)), sep)

\* str.strip(chars)
StripChars(s, chars) ==
    LET keep == {i \in 1..Len(s) : s[i] \notin chars}
    IN  IF keep = {} THEN <<>> ELSE SubSeq(s, SetMin(keep), SetMax(keep))

Whitespace == {" ", "\t", "\n", "\r"}

\* str.strip()
Strip(s) == StripChars(s, Whitespace)

DigitChars == <<"0", "1", "2", "3", "4", "5", "6", "7", "8", "9">>
IsDigit(c) == \E d \in 1..10 : DigitChars[d] = c
DigitVal(c) == (CHOOSE d \in 1..10 : DigitChars[d] = c) - 1

RECURSIVE DigitsVal(_)
DigitsVal(ds) ==
    IF ds = <<>> THEN 0
    ELSE 10 * DigitsVal(SubSeq(ds, 1, Len(ds) - 1)) + DigitVal(ds[Len(ds)])

\* int(tok): surrounding whitespace, an optional sign, decimal digits
IntBody(tok) ==
    LET t == Strip(tok)
    IN  IF t # <<>> /\ t[1] \in {"+", "-"} THEN SubSeq(t, 2, Len(t)) ELSE t

IntOk(tok) ==
    LET body == IntBody(tok)
    IN  body # <<>> /\ \A k \in 1..Len(body) : IsDigit(body[k])

ToInt(tok) ==
    LET t == Strip(tok)
    IN  IF t[1] = "-" THEN 0 - DigitsVal(IntBody(tok)) ELSE DigitsVal(IntBody(tok))

NonEmpty(s) == s # <<>>

RECURSIVE Flatten(_)
Flatten(ss) == IF ss = <<>> THEN <<>> ELSE Head(ss) \o Flatten(Tail(ss))

----------------------------------------------------------------------------
(* parse_scad_map *)

MapStart == <<"m", "a", "p", "=", "[">>
MapEnd   == <<"]", ";">>

\* re.search(r"map=\[(.*?)\];", content, re.DOTALL): the leftmost "map=["
\* that a "];" follows, and the first such "];" (the group is non-greedy)
MatchStart(text) == Find(text, MapStart, 1)
MatchEnd(text) ==
    LET i == MatchStart(text)
    IN  IF i = 0 THEN 0 ELSE Find(text, MapEnd, i + Len(MapStart))
\* a search that is satisfied by the start marker alone
MatchedStartOnly(text) == MatchStart(text) # 0
Matched(text) == MatchStart(text) # 0 /\ MatchEnd(text) # 0
\* match.group(1)
MapContent(text) ==
    SubSeq(text, MatchStart(text) + Len(MapStart), MatchEnd(text) - 1)

\* line.startswith("[") after line = line.strip()
IsRowLine(line) == Strip(line) # <<>> /\ Strip(line)[1] = "["
\* numbers_str = line.strip("[],")
NumbersStr(line) == StripChars(Strip(line), {"[", "]", ","})
\* the x.strip() of numbers_str.split(",") that are kept by "if x.strip()"
RowTokens(line) ==
    LET parts == Split(NumbersStr(line), ",")
    IN  SelectSeq([i \in 1..Len(parts) |-> Strip(parts[i])], NonEmpty)
\* whether the list comprehension raises ValueError
RowRaises(line) ==
    LET toks == RowTokens(line)
    IN  \E k \in 1..Len(toks) : ~IntOk(toks[k])
\* [int(x.strip()) for x in ... if x.strip()]
RowNumbers(line) ==
    LET toks == RowTokens(line)
    IN  [i \in 1..Len(toks) |-> ToInt(toks[i])]

----------------------------------------------------------------------------
(* convert_to_json: statistics *)

\* range(9) of the two bit loops
MaxLevels == 9

RECURSIVE Pow2(_)
Pow2(z) == IF z = 0 THEN 1 ELSE 2 * Pow2(z - 1)

\* (val >> z) & 1 on Python integers: floor shift, then parity
BitSet(v, z) == (v \div Pow2(z)) % 2 = 1

\* the bit loop stopping one level short: range(8)
RECURSIVE CountLevelsShort(_, _)
CountLevelsShort(v, z) ==
    IF z >= MaxLevels - 1 THEN 0
    ELSE (IF BitSet(v, z) THEN 1 ELSE 0) + CountLevelsShort(v, z + 1)

\* the inner loop of total_blocks for one val: for z in range(9): if ...: += 1
RECURSIVE CountLevels(_, _)
CountLevels(v, z) ==
    IF z >= MaxLevels THEN 0
    ELSE (IF BitSet(v, z) THEN 1 ELSE 0) + CountLevels(v, z + 1)

\* for val in row
RECURSIVE RowBlocks(_)
RowBlocks(row) ==
    IF row = <<>> THEN 0 ELSE CountLevels(Head(row), 0) + RowBlocks(Tail(row))

\* for row in heightmap
RECURSIVE TotalBlocks(_)
TotalBlocks(h) ==
    IF h = <<>> THEN 0 ELSE RowBlocks(Head(h)) + TotalBlocks(Tail(h))

IsZero(v) == v = 0
\* sum(1 for row in heightmap for val in row if val == 0)
GroundOnly(h) == Len(SelectSeq(Flatten(h), IsZero))
\* the cell count taken as the sum of the rows' lengths
TotalCellsSummed(h) == Len(Flatten(h))
\* len(heightmap) * len(heightmap[0]); evaluated only when heightmap has a row
TotalCells(h) == Len(h) * Len(h[1])

NoStats == [total_cells |-> 0, ground_only |-> 0, elevated |-> 0, total_blocks |-> 0]

----------------------------------------------------------------------------
(* main: the sample decoding loop *)

RECURSIVE DecodeFrom(_, _)
\* the decoding loop starting at level 1: range(1, 9)
DecodeSkipGround(v) == DecodeFrom(v, 1)

\* blocks = []; for z in range(9): if (val >> z) & 1: blocks.append(z)
DecodeFrom(v, z) ==
    IF z >= MaxLevels THEN <<>>
    ELSE (IF BitSet(v, z) THEN <<z>> ELSE <<>>) \o DecodeFrom(v, z + 1)

Decode(v) == DecodeFrom(v, 0)

test_values == <<0, 15, 63, 59, 31>>

----------------------------------------------------------------------------
(* convert_to_json: json.dump(map_data, f, indent=2) *)

\* int.__repr__
RECURSIVE EncDigits(_)
EncDigits(n) ==
    IF n < 10 THEN <<DigitChars[n + 1]>>
    ELSE EncDigits(n \div 10) \o <<DigitChars[(n % 10) + 1]>>

EncInt(n) == IF n < 0 THEN <<"-">> \o EncDigits(0 - n) ELSE EncDigits(n)

\* "\n" followed by level indents of two spaces
Indent(level) == <<"\n">> \o [i \in 1..level |-> "  "]

RECURSIVE JoinWith(_, _)
JoinWith(items, sep) ==
    IF items = <<>> THEN <<>>
    ELSE IF Len(items) = 1 THEN items[1]
    ELSE items[1] \o sep \o JoinWith(Tail(items), sep)

\* a JSON array whose items are already encoded; an empty list is "[]"
EncList(items, level) ==
    IF items = <<>> THEN <<"[", "]">>
    ELSE <<"[">> \o Indent(level + 1)
         \o JoinWith(items, <<",">> \o Indent(level + 1))
         \o Indent(level) \o <<"]">>

EncRow(row) == EncList([j \in 1..Len(row) |-> EncInt(row[j])], 2)
\* the rows written last row first
EncGridReversed(h) == EncList([i \in 1..Len(h) |-> EncRow(h[Len(h) + 1 - i])], 1)
EncGrid(h) == EncList([i \in 1..Len(h) |-> EncRow(h[i])], 1)

Member(key, value) == <<key, ":", " ">> \o value

\* map_data in insertion order, as json.dump writes it
MapDocument(h) ==
    <<"{">> \o Indent(1)
    \o JoinWith(<< Member("\"name\"", <<"\"Ant Attack Original\"">>),
                   Member("\"width\"", EncInt(Len(h[1]))),
                   Member("\"height\"", EncInt(Len(h))),
                   Member("\"maxLevels\"", EncInt(MaxLevels)),
                   Member("\"heightMap\"", EncGrid(h)),
                   Member("\"blocks\"", <<"[", "]">>),
                   Member("\"ramps\"", <<"[", "]">>),
                   Member("\"createdAt\"", <<"\"2025-01-01T00:00:00Z\"">>) >>,
                <<",">> \o Indent(1))
    \o Indent(0) \o <<"}">>

\* open(output_file, "w"): the file exists and is empty
Truncated == [exists |-> TRUE, data |-> <<>>]

----------------------------------------------------------------------------
(* The inputs of the converter *)

Row0_15   == <<"[", "0", ",", "1", "5", "]", ",">>
Row63_59  == <<"[", "6", "3", ",", "5", "9", "]">>
Row1x3    == <<"[", "1", ",", "x", ",", "3", "]", ",">>
RowEmpty  == <<"[", "]", ",">>
RowSpace  == <<"[", " ", "]">>
Row511m1  == <<" ", "[", "5", "1", "1", ",", " ", "-", "1", " ", ",", "]">>
Row600    == <<"[", "6", "0", "0", "]">>
Row7End   == <<"[", "7", "]", ";">>
Bare1_2   == <<"1", ",", "2">>

\* (the span always has a blank first and last line: the text after "map=["
\* and the text before "];")
LineSet == {Row0_15, Row63_59, Row1x3, RowEmpty, RowSpace, Row511m1,
            Row600, Row7End, Bare1_2}

HeadSet == { MapStart,
             <<"m", "a", "p", "=", "(">>,
             <<"/", "/", "\n">> \o MapStart \o <<"[", "3", "]", ",">> }
TailSet == { MapEnd, <<"]">> }

RECURSIVE SeqsUpTo(_, _)
SeqsUpTo(S, n) ==
    IF n = 0 THEN {<<>>}
    ELSE SeqsUpTo(S, n - 1)
         \cup {Append(q, x) : q \in {r \in SeqsUpTo(S, n - 1) : Len(r) = n - 1}, x \in S}

\* head, then each line on a line of its own, then tail
ScadText(head, body, tail) ==
    head \o <<"\n">> \o Flatten([i \in 1..Len(body) |-> body[i] \o <<"\n">>]) \o tail

NoFile  == [exists |-> FALSE, data |-> <<>>]
OldFile == [exists |-> TRUE, data |-> <<"old">>]

----------------------------------------------------------------------------
(* main of convert_map.py *)

Abort(e) ==
    /\ pc' = "aborted"
    /\ err' = e

\* parse_scad_map up to map_content.split("\n")
ParseSearch ==
    /\ pc = "parse_search"
    /\ IF Matched(content)
       THEN /\ lines' = Split(MapContent(content), "\n")
            /\ lineIdx' = 1
            /\ pc' = "parse_rows"
            /\ err' = err
       ELSE /\ Abort("ValueError: Could not find map array in file")
            /\ UNCHANGED <<lines, lineIdx>>
    /\ UNCHANGED <<content, rows, heightmap, stats, outFile, outFile0, opened, samples>>
    /\ UNCHANGED <<decVars, xcVars>>

\* the loop body with the row put in front of the list
ParseRowPrepend ==
    /\ pc = "parse_rows"
    /\ lineIdx <= Len(lines)
    /\ LET line == lines[lineIdx]
       IN  IF IsRowLine(line) /\ NumbersStr(line) # <<>>
           THEN IF RowRaises(line)
                THEN /\ Abort("ValueError: invalid literal for int()")
                     /\ UNCHANGED <<rows, lineIdx>>
                ELSE /\ rows' = <<RowNumbers(line)>> \o rows
                     /\ lineIdx' = lineIdx + 1
                     /\ UNCHANGED <<pc, err>>
           ELSE /\ lineIdx' = lineIdx + 1
                /\ UNCHANGED <<rows, pc, err>>
    /\ UNCHANGED <<content, lines, heightmap, stats, outFile, outFile0, opened, samples>>
    /\ UNCHANGED <<decVars, xcVars>>

\* the loop body recovering from a bad row by skipping it
ParseRowSkipBad ==
    /\ pc = "parse_rows"
    /\ lineIdx <= Len(lines)
    /\ LET line == lines[lineIdx]
       IN  IF IsRowLine(line) /\ NumbersStr(line) # <<>> /\ ~RowRaises(line)
           THEN rows' = Append(rows, RowNumbers(line))
           ELSE rows' = rows
    /\ lineIdx' = lineIdx + 1
    /\ UNCHANGED <<pc, err>>
    /\ UNCHANGED <<content, lines, heightmap, stats, outFile, outFile0, opened, samples>>
    /\ UNCHANGED <<decVars, xcVars>>

\* one iteration of "for line in map_content.split("\n")"
ParseRow ==
    /\ pc = "parse_rows"
    /\ lineIdx <= Len(lines)
    /\ LET line == lines[lineIdx]
       IN  IF IsRowLine(line) /\ NumbersStr(line) # <<>>
           THEN IF RowRaises(line)
                THEN /\ Abort("ValueError: invalid literal for int()")
                     /\ UNCHANGED <<rows, lineIdx>>
                ELSE /\ rows' = Append(rows, RowNumbers(line))
                     /\ lineIdx' = lineIdx + 1
                     /\ UNCHANGED <<pc, err>>
           ELSE /\ lineIdx' = lineIdx + 1
                /\ UNCHANGED <<rows, pc, err>>
    /\ UNCHANGED <<content, lines, heightmap, stats, outFile, outFile0, opened, samples>>
    /\ UNCHANGED <<decVars, xcVars>>

\* return rows; heightmap = parse_scad_map(scad_file)
ParseReturn ==
    /\ pc = "parse_rows"
    /\ lineIdx > Len(lines)
    /\ heightmap' = [set |-> TRUE, grid |-> rows]
    /\ pc' = "stats"
    /\ UNCHANGED <<err, content, lines, lineIdx, rows, stats, outFile, outFile0,
                   opened, samples>>
    /\ UNCHANGED <<decVars, xcVars>>

\* convert_to_json, "Calculate statistics" and "Count total blocks"
ComputeStats ==
    /\ pc = "stats"
    /\ IF heightmap.grid = <<>>
       THEN /\ Abort("IndexError: list index out of range")
            /\ stats' = stats
       ELSE /\ stats' = [total_cells  |-> TotalCells(heightmap.grid),
                         ground_only  |-> GroundOnly(heightmap.grid),
                         elevated     |-> TotalCells(heightmap.grid)
                                            - GroundOnly(heightmap.grid),
                         total_blocks |-> TotalBlocks(heightmap.grid)]
            /\ pc' = "report"
            /\ err' = err
    /\ UNCHANGED <<content, lines, lineIdx, rows, heightmap, outFile, outFile0,
                   opened, samples>>
    /\ UNCHANGED <<decVars, xcVars>>

\* the prints of the statistics: 100 * ground_only / total_cells
Report ==
    /\ pc = "report"
    /\ IF stats.total_cells = 0
       THEN Abort("ZeroDivisionError: division by zero")
       ELSE /\ pc' = "open"
            /\ err' = err
    /\ UNCHANGED <<content, lines, lineIdx, rows, heightmap, stats, outFile, outFile0,
                   opened, samples>>
    /\ UNCHANGED <<decVars, xcVars>>

\* with open(output_file, "w") as f: succeeds and truncates
OpenOutput ==
    /\ pc = "open"
    /\ outFile' = Truncated
    /\ opened' = TRUE
    /\ pc' = "dump"
    /\ UNCHANGED <<err, content, lines, lineIdx, rows, heightmap, stats, outFile0, samples>>
    /\ UNCHANGED <<decVars, xcVars>>

\* with open(output_file, "w") as f: the open itself fails
OpenFails ==
    /\ pc = "open"
    /\ Abort("OSError: open")
    /\ UNCHANGED <<content, lines, lineIdx, rows, heightmap, stats, outFile, outFile0,
                   opened, samples>>
    /\ UNCHANGED <<decVars, xcVars>>

\* json.dump(map_data, f, indent=2) writes the whole document
Dump ==
    /\ pc = "dump"
    /\ outFile' = [exists |-> TRUE, data |-> MapDocument(heightmap.grid)]
    /\ pc' = "sample"
    /\ UNCHANGED <<err, content, lines, lineIdx, rows, heightmap, stats, outFile0,
                   opened, samples>>
    /\ UNCHANGED <<decVars, xcVars>>

\* json.dump raises after some flushes of the buffer reached the file: the
\* file keeps a proper prefix of the document
DumpFails ==
    /\ pc = "dump"
    /\ \E k \in 0..(Len(MapDocument(heightmap.grid)) - 1) :
           /\ k % WriteBuffer = 0
           /\ outFile' = [exists |-> TRUE,
                          data |-> SubSeq(MapDocument(heightmap.grid), 1, k)]
    /\ Abort("OSError: write")
    /\ UNCHANGED <<content, lines, lineIdx, rows, heightmap, stats, outFile0,
                   opened, samples>>
    /\ UNCHANGED <<decVars, xcVars>>

\* "Test decoding a few values"
SampleDecode ==
    /\ pc = "sample"
    /\ samples' = [i \in 1..Len(test_values) |-> Decode(test_values[i])]
    /\ pc' = "done"
    /\ UNCHANGED <<err, content, lines, lineIdx, rows, heightmap, stats, outFile,
                   outFile0, opened>>
    /\ UNCHANGED <<decVars, xcVars>>

Pending == [done |-> FALSE, levels |-> <<>>]
DecIdle == val = 0 /\ blocks = Pending
XcIdle ==
    /\ xpc = "idle"
    /\ xret = "none"
    /\ xcontent = <<>>
    /\ projFile = NoFile
    /\ projFile0 = NoFile
    /\ files_to_add = <<>>
    /\ group_name = "Input"

ConvIdle ==
    /\ pc = "idle"
    /\ err = "none"
    /\ content = <<>>
    /\ lines = <<>>
    /\ lineIdx = 1
    /\ rows = <<>>
    /\ heightmap = [set |-> FALSE, grid |-> <<>>]
    /\ stats = NoStats
    /\ outFile = NoFile
    /\ outFile0 = NoFile
    /\ opened = FALSE
    /\ samples = <<>>

Init ==
    /\ pc = "parse_search"
    /\ err = "none"
    /\ \E head \in HeadSet, body \in SeqsUpTo(LineSet, MaxLines), tail \in TailSet :
           content = ScadText(head, body, tail)
    /\ lines = <<>>
    /\ lineIdx = 1
    /\ rows = <<>>
    /\ heightmap = [set |-> FALSE, grid |-> <<>>]
    /\ stats = NoStats
    /\ outFile \in {NoFile, OldFile}
    /\ outFile0 = outFile
    /\ opened = FALSE
    /\ samples = <<>>
    /\ DecIdle
    /\ XcIdle

Next ==
    \/ ParseSearch
    \/ ParseRow
    \/ ParseReturn
    \/ ComputeStats
    \/ Report
    \/ OpenOutput
    \/ OpenFails
    \/ Dump
    \/ DumpFails
    \/ SampleDecode

Spec == Init /\ [][Next]_vars

----------------------------------------------------------------------------
(* Properties of the converter *)

Ended == pc \in {"aborted", "done"}
Untouched == ~opened /\ outFile = outFile0

\* the start marker "map=[" somewhere and the end marker "];" after it
HasMarkerPair(text) ==
    \E i \in 1..Len(text) :
        /\ StartsWithAt(text, MapStart, i)
        /\ \E j \in (i + Len(MapStart))..Len(text) : StartsWithAt(text, MapEnd, j)

\* C1: when the input text does not hold the start marker and a later end
\* marker, the parse step fails with the parse error (ValueError "Could not
\* find map array in file"), no grid is returned and the output file is never
\* opened or written.
C1_MissingMarkers ==
    ~HasMarkerPair(content) =>
        /\ pc \in {"parse_search", "aborted"}
        /\ pc = "aborted" => err = "ValueError: Could not find map array in file"
        /\ ~heightmap.set
        /\ Untouched

C1_Witness ==
    /\ ~HasMarkerPair(content)
    /\ Find(content, MapStart, 1) # 0
    /\ pc = "aborted"
    /\ outFile = OldFile

\* the lines of the marked span
SpanLines(text) == Split(MapContent(text), "\n")

\* a data row of the span holds a non-empty token that is no integer
BadRowInSpan(text) ==
    /\ Matched(text)
    /\ LET span == SpanLines(text)
       IN  \E k \in 1..Len(span) :
               /\ IsRowLine(span[k])
               /\ LET toks == RowTokens(span[k])
                  IN  \E t \in 1..Len(toks) : ~IntOk(toks[t])

\* C2: when a data row of the marked span holds a non-empty token that is not
\* a base-10 integer, parsing fails with the value error (ValueError of
\* int()), no grid, partial or whole, is returned, and the run ends before the
\* output file is opened or written.
C2_BadToken ==
    BadRowInSpan(content) =>
        /\ pc \in {"parse_search", "parse_rows", "aborted"}
        /\ pc = "aborted" => err = "ValueError: invalid literal for int()"
        /\ ~heightmap.set
        /\ Untouched

\* a bad row after a good one: rows were collected and then dropped
C2_Witness ==
    /\ BadRowInSpan(content)
    /\ pc = "aborted"
    /\ rows # <<>>
    /\ outFile = OldFile

\* C3: at the end of every run the output file either holds the complete Map
\* Document or is the file it was before the run.
C3_AllOrNothing ==
    (Ended /\ outFile # outFile0) => outFile.data = MapDocument(heightmap.grid)

RECURSIVE SumSeq(_)
SumSeq(q) == IF q = <<>> THEN 0 ELSE Head(q) + SumSeq(Tail(q))

\* sum of len(decode(c)) over every cell c
DecodedBlocks(h) ==
    SumSeq([i \in 1..Len(h) |->
               SumSeq([j \in 1..Len(h[i]) |-> Len(Decode(h[i][j]))])])

\* convert_to_json got past its block counting loop
StatsComputed == heightmap.set /\ heightmap.grid # <<>> /\ pc # "stats"

\* C5: total_blocks equals the sum, over every cell of every row (rows of
\* differing length included), of the number of levels the decoder yields.
C5_TotalBlocks ==
    StatsComputed => stats.total_blocks = DecodedBlocks(heightmap.grid)

\* a ragged grid holding a cell with bit 8 set
C5_Witness ==
    /\ StatsComputed
    /\ \E i, j \in 1..Len(heightmap.grid) :
           Len(heightmap.grid[i]) # Len(heightmap.grid[j])
    /\ \E i \in 1..Len(heightmap.grid) : \E j \in 1..Len(heightmap.grid[i]) :
           heightmap.grid[i][j] \in {511, 0 - 1}
    /\ stats.total_blocks > MaxLevels

----------------------------------------------------------------------------
(* Reading a Map Document back: the heightMap member as a grid *)

JsonSpace == {"\n", "  ", " "}

\* one piece of the text of a JSON array of arrays of integers
ReadPiece(st, c) ==
    LET flushed == IF st.num = <<>> THEN st.row ELSE Append(st.row, ToInt(st.num))
    IN  IF st.done \/ c \in JsonSpace THEN st
        ELSE IF c = "[" THEN [st EXCEPT !.depth = st.depth + 1, !.row = <<>>]
        ELSE IF c = "]" /\ st.depth = 2
             THEN [st EXCEPT !.depth = 1, !.grid = Append(st.grid, flushed),
                             !.row = <<>>, !.num = <<>>]
        ELSE IF c = "]" THEN [st EXCEPT !.depth = 0, !.done = TRUE]
        ELSE IF c = "," /\ st.depth = 2
             THEN [st EXCEPT !.row = flushed, !.num = <<>>]
        ELSE IF c = "," THEN st
        ELSE [st EXCEPT !.num = Append(st.num, c)]

RECURSIVE ReadFrom(_, _, _)
ReadFrom(doc, i, st) ==
    IF i > Len(doc) \/ st.done THEN st.grid
    ELSE ReadFrom(doc, i + 1, ReadPiece(st, doc[i]))

ReadHeightMap(doc) ==
    ReadFrom(doc, Find(doc, <<"\"heightMap\"", ":">>, 1) + 2,
             [depth |-> 0, grid |-> <<>>, row |-> <<>>, num |-> <<>>, done |-> FALSE])

\* C6: the heightMap of a written Map Document, read back, is the input grid:
\* same rows in the same order, same values in the same columns.
C6_RoundTrip ==
    pc \in {"sample", "done"} => ReadHeightMap(outFile.data) = heightmap.grid

C6_Witness ==
    /\ pc = "done"
    /\ Len(heightmap.grid) >= 2
    /\ heightmap.grid[1] # heightmap.grid[2]
    /\ \E i \in 1..Len(heightmap.grid) : \E j \in 1..Len(heightmap.grid[i]) :
           heightmap.grid[i][j] < 0

----------------------------------------------------------------------------

RowWithNumbers(line) == IsRowLine(line) /\ NumbersStr(line) # <<>>

\* the spec's example: map=[ \n [0,15], \n [63,59] \n ];
ExampleText == ScadText(MapStart, <<Row0_15, Row63_59>>, MapEnd)

GridOfLines(ls) == [i \in 1..Len(ls) |-> RowNumbers(ls[i])]

\* C7 as stated: the returned grid has one row for every line of the span that
\* begins with "[" after trimming.
C7_RowPerBracketLine ==
    heightmap.set =>
        heightmap.grid = GridOfLines(SelectSeq(SpanLines(content), IsRowLine))

\* C7, amended: the returned grid has, in source order, one row for every line
\* of the span that begins with "[" after trimming and is not empty once its
\* leading and trailing "[", "]" and "," are stripped; the row is the list of
\* the line's comma-separated integer tokens, empty tokens discarded. Every
\* other line contributes nothing. The example text yields [[0,15],[63,59]].
C7_RowPerNonEmptyBracketLine ==
    heightmap.set =>
        LET span == SpanLines(content)
        IN  /\ heightmap.grid = GridOfLines(SelectSeq(span, RowWithNumbers))
            /\ content = ExampleText => heightmap.grid = << <<0, 15>>, <<63, 59>> >>
            /\ span = << <<>>, Row511m1, Row0_15, <<>> >>
                   => heightmap.grid = << <<511, 0 - 1>>, <<0, 15>> >>

\* a span with a skipped bracket line and a skipped other line between rows
C7_Witness ==
    /\ heightmap.set
    /\ Len(heightmap.grid) >= 2
    /\ heightmap.grid[1] # heightmap.grid[2]
    /\ Len(SelectSeq(SpanLines(content), IsRowLine)) > Len(heightmap.grid)

ZeroRows == heightmap.set /\ heightmap.grid = <<>>
ZeroColumns == heightmap.set /\ heightmap.grid # <<>> /\ heightmap.grid[1] = <<>>

\* C8 as stated: a grid with zero rows or with an empty first row makes
\* convert_to_json fail with a division error, before the output is opened.
C8_DivisionError ==
    ((ZeroRows \/ ZeroColumns) /\ pc \notin {"stats", "report"}) =>
        /\ pc = "aborted"
        /\ err = "ZeroDivisionError: division by zero"
        /\ Untouched

\* C8, amended: a grid with zero rows makes convert_to_json fail with an index
\* error when it takes the first row's length for total_cells; a grid whose
\* first row is empty makes it fail with a division error in the percentage
\* statistics; both before the output file is opened.
C8_IndexOrDivisionError ==
    /\ (ZeroRows /\ pc # "stats") =>
           /\ pc = "aborted"
           /\ err = "IndexError: list index out of range"
           /\ Untouched
    /\ (ZeroColumns /\ pc \notin {"stats", "report"}) =>
           /\ pc = "aborted"
           /\ err = "ZeroDivisionError: division by zero"
           /\ stats.total_cells = 0
           /\ Untouched

\* an empty first row followed by a row with cells
C8_Witness ==
    /\ ZeroColumns
    /\ pc = "aborted"
    /\ Len(heightmap.grid) >= 2
    /\ heightmap.grid[2] # <<>>

\* C9: a grid that reached a written document is non-empty, rectangular and
\* holds only values in 0..511.
C9_GridInvariants ==
    pc \in {"sample", "done"} =>
        /\ heightmap.grid # <<>>
        /\ \A i \in 1..Len(heightmap.grid) :
               /\ Len(heightmap.grid[i]) = Len(heightmap.grid[1])
               /\ \A j \in 1..Len(heightmap.grid[i]) :
                      heightmap.grid[i][j] \in 0..(Pow2(MaxLevels) - 1)

----------------------------------------------------------------------------
(* The bitmask decoding loop applied to any Cell Code *)

DecodeValue ==
    /\ ~blocks.done
    /\ blocks' = [done |-> TRUE, levels |-> Decode(val)]
    /\ UNCHANGED <<val, convVars, xcVars>>

InitDecode ==
    /\ val \in 0..MaxVal
    /\ blocks = Pending
    /\ ConvIdle
    /\ XcIdle

NextDecode == DecodeValue

SpecDecode == InitDecode /\ [][NextDecode]_vars

\* bit z of c, read off the binary expansion of c
HasBit(c, z) == c % Pow2(z + 1) >= Pow2(z)

\* C4: for a Cell Code in 0..511 the decoded levels are exactly the bit
\* positions 0..8 set in it, each once, ascending; decode(0) is empty,
\* decode(511) = [0..8], decode(15) = [0,1,2,3], decode(63) = [0..5],
\* decode(59) = [0,1,3,4,5]; for a larger code the bits above 8 are ignored.
C4_Decode ==
    blocks.done =>
        LET lv == blocks.levels
        IN  /\ \A k \in 1..Len(lv) : lv[k] \in 0..8
            /\ \A k \in 1..(Len(lv) - 1) : lv[k] < lv[k + 1]
            /\ {lv[k] : k \in 1..Len(lv)} = {z \in 0..8 : HasBit(val, z)}
            /\ SumSeq([k \in 1..Len(lv) |-> Pow2(lv[k])]) = val % 512
            /\ val = 0 => lv = <<>>
            /\ val = 511 => lv = <<0, 1, 2, 3, 4, 5, 6, 7, 8>>
            /\ val = 15 => lv = <<0, 1, 2, 3>>
            /\ val = 63 => lv = <<0, 1, 2, 3, 4, 5>>
            /\ val = 59 => lv = <<0, 1, 3, 4, 5>>
            /\ val = 512 => lv = <<>>
            /\ val = 1023 => lv = <<0, 1, 2, 3, 4, 5, 6, 7, 8>>

C4_Witness == blocks.done /\ val = 59 + 512 /\ blocks.levels = <<0, 1, 3, 4, 5>>

----------------------------------------------------------------------------
(* add_files_to_xcode                                                      *)
(* The project text is a sequence of pieces; each marker the function      *)
(* searches for is one piece. Positions are Python's: 0-based, -1 for "not *)
(* found", a negative position counting from the end.                      *)

main_group_marker    == "/* AntAttack3D */ = {"
pbx_group_section    == "/* Begin PBXGroup section */"
file_ref_section     == "/* Begin PBXFileReference section */"
build_file_section   == "/* Begin PBXBuildFile section */"
sources_phase_marker == "/* Sources */ = {"
ChildrenOpen == "children = ("
FilesOpen    == "files = ("
CloseParen   == ");"
Newline      == "\n"

\* a position given to find() or to a slice, as Python clamps it
PyPos(s, pos) ==
    IF pos < 0 THEN (IF Len(s) + pos < 0 THEN 0 ELSE Len(s) + pos)
    ELSE IF pos > Len(s) THEN Len(s) ELSE pos

\* content.find(piece, start)
PyFind(s, piece, start) ==
    LET cands == {i \in PyPos(s, start)..(Len(s) - 1) : s[i + 1] = piece}
    IN  IF cands = {} THEN 0 - 1 ELSE SetMin(cands)

\* content[:pos] + text + content[pos:]
PyInsert(s, pos, text) ==
    SubSeq(s, 1, PyPos(s, pos)) \o text \o SubSeq(s, PyPos(s, pos) + 1, Len(s))

\* "/* {group_name} */ = {" of the new group's entry
GroupHeader(name) ==
    IF name = "Sources" THEN sources_phase_marker
    ELSE IF name = "AntAttack3D" THEN main_group_marker
    ELSE "/* Input */ = {"

\* new_group_ref
NewGroupRef(name) == <<"group_id /* group_name */,", Newline>>

PerFile(files, piece) == Flatten([i \in 1..Len(files) |-> <<piece, files[i], Newline>>])

\* new_group
NewGroup(name, files) ==
    <<Newline, "group_id", GroupHeader(name), Newline, "isa = PBXGroup;", Newline,
      ChildrenOpen, Newline>>
    \o PerFile(files, "file_ref /* filename */,")
    \o <<CloseParen, Newline, "path = group_name;", Newline,
         "sourceTree = \"<group>\";", Newline, "};">>

\* file_refs_entries, build_files_entries, sources_entries
FileRefEntries(files)   == PerFile(files, "file_ref = {isa = PBXFileReference; };")
BuildFileEntries(files) == PerFile(files, "build_file = {isa = PBXBuildFile; };")
SourcesEntries(files)   == PerFile(files, "build_file /* filename in Sources */,")

\* a failing return that first saves the content it has patched so far
ReturnFalseSaving ==
    /\ xret' = "False"
    /\ xpc' = "returned"
    /\ projFile' = [exists |-> TRUE, data |-> xcontent]

\* print("Could not find ..."); return False
ReturnFalse ==
    /\ xret' = "False"
    /\ xpc' = "returned"
    /\ projFile' = projFile

\* os.path.exists(project_path), then the read
ReadProject ==
    /\ xpc = "read"
    /\ IF ~projFile.exists
       THEN /\ xret' = "False"
            /\ xpc' = "returned"
            /\ UNCHANGED <<xcontent, projFile>>
       ELSE /\ xcontent' = projFile.data
            /\ xpc' = "main_group"
            /\ UNCHANGED <<xret, projFile>>
    /\ UNCHANGED <<projFile0, files_to_add, group_name, convVars, decVars>>

\* the group reference added to the main group's children
AddGroupRef ==
    /\ xpc = "main_group"
    /\ LET main_group_idx == PyFind(xcontent, main_group_marker, 0)
           children_start == PyFind(xcontent, ChildrenOpen, main_group_idx)
           children_end   == PyFind(xcontent, CloseParen, children_start)
       IN  IF main_group_idx = 0 - 1
           THEN ReturnFalse /\ xcontent' = xcontent
           ELSE /\ xcontent' = PyInsert(xcontent, children_end, NewGroupRef(group_name))
                /\ xpc' = "group_section"
                /\ UNCHANGED <<xret, projFile>>
    /\ UNCHANGED <<projFile0, files_to_add, group_name, convVars, decVars>>

\* a section marker is searched and text inserted after the line holding it
InsertAfterMarker(marker, text, next) ==
    LET idx == PyFind(xcontent, marker, 0)
        insert_after == PyFind(xcontent, Newline, idx) + 1
    IN  IF idx = 0 - 1
        THEN ReturnFalse /\ xcontent' = xcontent
        ELSE /\ xcontent' = PyInsert(xcontent, insert_after, text)
             /\ xpc' = next
             /\ UNCHANGED <<xret, projFile>>

\* the PBXGroup entry of the new folder
AddGroup ==
    /\ xpc = "group_section"
    /\ InsertAfterMarker(pbx_group_section, NewGroup(group_name, files_to_add),
                         "file_refs")
    /\ UNCHANGED <<projFile0, files_to_add, group_name, convVars, decVars>>

\* the PBXFileReference entries
AddFileRefs ==
    /\ xpc = "file_refs"
    /\ InsertAfterMarker(file_ref_section, FileRefEntries(files_to_add), "build_files")
    /\ UNCHANGED <<projFile0, files_to_add, group_name, convVars, decVars>>

\* the PBXBuildFile entries
AddBuildFiles ==
    /\ xpc = "build_files"
    /\ InsertAfterMarker(build_file_section, BuildFileEntries(files_to_add), "sources")
    /\ UNCHANGED <<projFile0, files_to_add, group_name, convVars, decVars>>

\* the files added to the Sources build phase
AddSources ==
    /\ xpc = "sources"
    /\ LET sources_phase_idx == PyFind(xcontent, sources_phase_marker, 0)
           files_start == PyFind(xcontent, FilesOpen, sources_phase_idx)
           files_end   == PyFind(xcontent, CloseParen, files_start)
       IN  IF sources_phase_idx = 0 - 1
           THEN ReturnFalse /\ xcontent' = xcontent
           ELSE /\ xcontent' = PyInsert(xcontent, files_end, SourcesEntries(files_to_add))
                /\ xpc' = "write"
                /\ UNCHANGED <<xret, projFile>>
    /\ UNCHANGED <<projFile0, files_to_add, group_name, convVars, decVars>>

\* with open(project_path, "w") as f: f.write(content); return True
WriteProject ==
    /\ xpc = "write"
    /\ projFile' = [exists |-> TRUE, data |-> xcontent]
    /\ xret' = "True"
    /\ xpc' = "returned"
    /\ UNCHANGED <<xcontent, projFile0, files_to_add, group_name, convVars, decVars>>

\* a project file with every section; the inputs drop kinds of pieces from it
FullProject ==
    <<build_file_section, Newline, "build entry", Newline,
      file_ref_section, Newline, "file entry", Newline,
      pbx_group_section, Newline,
      "main_id", main_group_marker, Newline, ChildrenOpen, Newline, "child,", Newline,
      CloseParen, Newline,
      "phase_id", sources_phase_marker, Newline, FilesOpen, Newline, "file,", Newline,
      CloseParen, Newline>>

Droppable == {main_group_marker, pbx_group_section, file_ref_section,
              build_file_section, sources_phase_marker, ChildrenOpen, FilesOpen,
              CloseParen, Newline}

RECURSIVE Without(_, _)
Without(s, drop) ==
    IF s = <<>> THEN <<>>
    ELSE (IF Head(s) \in drop THEN <<>> ELSE <<Head(s)>>) \o Without(Tail(s), drop)

FileNames  == {"InputProvider.swift", "InputManager.swift"}
GroupNames == {"Input", "Sources"}

InitXcode ==
    /\ xpc = "read"
    /\ xret = "none"
    /\ xcontent = <<>>
    /\ \/ projFile = NoFile
       \/ \E drop \in SUBSET Droppable :
              projFile = [exists |-> TRUE, data |-> Without(FullProject, drop)]
    /\ projFile0 = projFile
    /\ files_to_add \in SeqsUpTo(FileNames, MaxFiles)
    /\ group_name \in GroupNames
    /\ ConvIdle
    /\ DecIdle

NextXcode ==
    \/ ReadProject
    \/ AddGroupRef
    \/ AddGroup
    \/ AddFileRefs
    \/ AddBuildFiles
    \/ AddSources
    \/ WriteProject

SpecXcode == InitXcode /\ [][NextXcode]_vars

\* C10: the project file is written only on the path that returns True: on
\* every return of False, and at every point before the final write, the file
\* on disk is the file as it was, whatever was inserted in memory.
C10_WriteOnlyOnTrue == xret # "True" => projFile = projFile0

\* False returned after insertions were applied to the in-memory content
C10_Witness ==
    /\ xret = "False"
    /\ projFile.exists
    /\ Len(xcontent) > Len(projFile.data) + Len(NewGroupRef(group_name))
    /\ files_to_add # <<>>

====
